---- MODULE Spec2Model ----
(***************************************************************************)
(* Model of the mappersmith test library (src/src/test.js): the mock       *)
(* store, the id counter, the gateway substitution, the synchronous and    *)
(* the asynchronous lookup, the matcher combinators.  The default gateway  *)
(* comes from src/src/index.js.  MockRequest, MockResource and MockGateway *)
(* are imported by test.js; the methods of theirs that test.js calls are   *)
(* modelled from the specification (sections 3, 4.2 and 4.5).              *)
(***************************************************************************)
EXTENDS Integers, Sequences, FiniteSets, Bags, TLC

VARIABLES
    store,            \* the mock entries, in registration order
    ids,              \* the next id to assign
    originalGateway,  \* the gateway saved by install
    gateway,          \* configs.gateway, the process-wide gateway slot
    asyncCalls,       \* the lookupResponseAsync calls in flight
    result,           \* the latest step: its operation, what it handed to its caller and,
                      \* for an outcome of lookupResponseAsync, the call that delivered it
    selected,         \* history: ids of the entries a lookup selected since the last clear
    slotAtInstall,    \* history: the gateway slot as the latest install found it
    matcher           \* the matcher a test built last: how it was built, the predicate
                      \* returned, and the applications of that predicate so far

vars == <<store, ids, originalGateway, gateway, asyncCalls, result, selected, slotAtInstall,
          matcher>>

(***************************************************************************)
(* Bounds of the model.                                                    *)
(***************************************************************************)
MaxIds == 2
MaxCalls == 1
MaxAsync == 2
MaxLen == 2
MaxApply == 2

(***************************************************************************)
(* Values.  Strings that matchers look into are sequences of characters.   *)
(***************************************************************************)
Undefined == [t |-> "undefined", v |-> <<>>]
Literal(v) == [t |-> "literal", v |-> v]
anything == [t |-> "anything", v |-> <<>>]
stringContaining(sample) == [t |-> "stringContaining", v |-> sample]

\* no predicate was returned; no matcher was built yet
NoPredicate == [t |-> "none", v |-> <<>>]
NoMatcher == [op |-> "none", argType |-> "none", error |-> "none",
              predicate |-> NoPredicate, applied |-> <<>>]

NoHeaders == [h \in {} |-> <<>>]
AuthHeader(v) == [h \in {"Authorization"} |-> v]

Bearer == <<"B", "r">>
BearerToken == <<"B", "r", "t">>

\* the offsets (from 0) at or after start where search occurs in str
Occurrences(str, search, start) ==
    {i \in start..(Len(str) - Len(search)) : SubSeq(str, i + 1, i + Len(search)) = search}

\* String.prototype.includes and String.prototype.indexOf
includes(str, search, start) == Occurrences(str, search, start) # {}

indexOf(str, search, start) ==
    IF Occurrences(str, search, start) = {} THEN -1
    ELSE CHOOSE i \in Occurrences(str, search, start) :
             \A j \in Occurrences(str, search, start) : i <= j

\* mutant: the length test of the fallback is >= in place of >
stringIncludesGe(str, search, start, hasIncludes) ==
    IF hasIncludes THEN includes(str, search, start)
    ELSE IF start + Len(search) >= Len(str) THEN FALSE
    ELSE indexOf(str, search, start) # -1

\* hasIncludes: typeof str.includes === 'function'
stringIncludes(str, search, start, hasIncludes) ==
    IF hasIncludes THEN includes(str, search, start)
    ELSE IF start + Len(search) > Len(str) THEN FALSE
    ELSE indexOf(str, search, start) # -1

\* the strings of the modelled environment have the includes method
HasIncludes == TRUE

\* a mock's field against the request's value: a matcher is applied, a literal compared
matches(constraint, value) ==
    CASE constraint.t = "undefined" -> TRUE
      [] constraint.t = "anything" -> TRUE
      [] constraint.t = "stringContaining" -> stringIncludes(value, constraint.v, 0, HasIncludes)
      [] OTHER -> constraint.v = value

(***************************************************************************)
(* The props a test registers with mockRequest, the clients it registers   *)
(* with mockClient, and the requests the code under test issues.           *)
(***************************************************************************)
PropsA == [method |-> "get", url |-> "/users", body |-> Undefined,
           headers |-> NoHeaders, response |-> 1]
PropsB == [method |-> "get", url |-> "/users", body |-> Undefined,
           headers |-> NoHeaders, response |-> 2]
PropsC == [method |-> "get", url |-> "/users", body |-> anything,
           headers |-> AuthHeader(stringContaining(Bearer)), response |-> 3]
PropsD == [method |-> "post", url |-> "/posts", body |-> Literal(<<"a">>),
           headers |-> NoHeaders, response |-> 4]

Props == {PropsA, PropsB, PropsC, PropsD}

\* a client whose middleware adds the Authorization header in prepareRequest:
\* "sync" is the request shape before the middleware stack ran, "final" after
ClientE == [sync |-> [method |-> "get", url |-> "/users", body |-> Undefined,
                      headers |-> NoHeaders, response |-> 5],
            final |-> [method |-> "get", url |-> "/users", body |-> Undefined,
                       headers |-> AuthHeader(Literal(BearerToken)), response |-> 5]]

Clients == {ClientE}

ReqUsers == [method |-> "get", url |-> "/users", body |-> <<>>, headers |-> NoHeaders]
ReqUsersAuth == [method |-> "get", url |-> "/users", body |-> <<>>,
                 headers |-> AuthHeader(BearerToken)]
ReqPostB == [method |-> "post", url |-> "/posts", body |-> <<"b">>, headers |-> NoHeaders]
ReqGetPosts == [method |-> "get", url |-> "/posts", body |-> <<>>, headers |-> NoHeaders]

Requests == {ReqUsers, ReqUsersAuth, ReqPostB, ReqGetPosts}

(***************************************************************************)
(* Gateways.                                                               *)
(***************************************************************************)
MockGateway == "MockGateway"
DefaultGateways == {"XHR", "HTTP", "undefined"}

\* JavaScript truthiness of a gateway reference
Truthy(g) == g \notin {"null", "undefined"}

(***************************************************************************)
(* Mock entries.                                                           *)
(***************************************************************************)
MockRequest(id, props) ==
    [id |-> id, kind |-> "MockRequest", sync |-> props, final |-> props,
     calls |-> <<>>, pendingMiddlewareExecution |-> FALSE]

MockResource(id, client) ==
    [id |-> id, kind |-> "MockResource", sync |-> client.sync, final |-> client.final,
     calls |-> <<>>, pendingMiddlewareExecution |-> TRUE]

\* the request shape an entry is matched against
toMockRequest(mock) ==
    IF mock.pendingMiddlewareExecution THEN mock.sync ELSE mock.final

isPartialMatch(mock, request) ==
    /\ toMockRequest(mock).method = request.method
    /\ toMockRequest(mock).url = request.url

isExactMatch(mock, request) ==
    /\ toMockRequest(mock).method = request.method
    /\ toMockRequest(mock).url = request.url
    /\ matches(toMockRequest(mock).body, request.body)
    /\ \A h \in DOMAIN toMockRequest(mock).headers :
          /\ h \in DOMAIN request.headers
          /\ matches(toMockRequest(mock).headers[h], request.headers[h])

toUpperCase(method) ==
    CASE method = "get" -> "GET"
      [] method = "post" -> "POST"
      [] OTHER -> method

requestToLog(request) ==
    <<toUpperCase(request.method), request.url, request.body, request.headers>>

mockToLog(requestMock) ==
    <<toUpperCase(toMockRequest(requestMock).method), toMockRequest(requestMock).url,
      toMockRequest(requestMock).body, toMockRequest(requestMock).headers>>

(***************************************************************************)
(* lookupResponse                                                          *)
(***************************************************************************)
Max(S) == CHOOSE x \in S : \A y \in S : y <= x
Min(S) == CHOOSE x \in S : \A y \in S : x <= y

\* mutant: shift() in place of pop(), the first exact match is taken
exactMatchShift(request) ==
    LET hits == {i \in 1..Len(store) : isExactMatch(store[i], request)}
    IN  IF hits = {} THEN 0 ELSE Min(hits)

\* mocks.filter(isExactMatch).pop(): position of the last exact match, 0 for none
exactMatch(request) ==
    LET hits == {i \in 1..Len(store) : isExactMatch(store[i], request)}
    IN  IF hits = {} THEN 0 ELSE Max(hits)

\* mutant: the second filter tests isExactMatch again
partialMatchExact(request) ==
    LET hits == {i \in 1..Len(store) : isExactMatch(store[i], request)}
    IN  IF hits = {} THEN 0 ELSE Max(hits)

\* mocks.filter(isPartialMatch).pop(): position of the last partial match, 0 for none
partialMatch(request) ==
    LET hits == {i \in 1..Len(store) : isPartialMatch(store[i], request)}
    IN  IF hits = {} THEN 0 ELSE Max(hits)

NoLog == <<>>

\* the step handed nothing to its caller
NoOutcome == [kind |-> "none", response |-> 0, request |-> NoLog, mock |-> NoLog]

\* no call of lookupResponseAsync has delivered its outcome in the step
NoCall == [request |-> NoLog, launched |-> {}, running |-> {}, state |-> "none"]

\* the rejection of a middleware replay, handed on by Promise.all
MiddlewareError(request) ==
    [kind |-> "MiddlewareError", response |-> 0, request |-> requestToLog(request),
     mock |-> NoLog]

\* mutant: the partial match is looked for before the exact match
lookupOutcomePartialFirst(request) ==
    IF partialMatch(request) # 0
      THEN [kind |-> "NoExactMatchButPartial", response |-> 0,
            request |-> requestToLog(request),
            mock |-> mockToLog(store[partialMatch(request)])]
      ELSE IF exactMatch(request) # 0
        THEN [kind |-> "response",
              response |-> toMockRequest(store[exactMatch(request)]).response,
              request |-> requestToLog(request), mock |-> NoLog]
        ELSE [kind |-> "NoMatch", response |-> 0,
              request |-> requestToLog(request), mock |-> NoLog]

\* what a lookup hands to its caller: a response or one of the two errors
lookupOutcome(request) ==
    IF exactMatch(request) # 0
      THEN [kind |-> "response", response |-> toMockRequest(store[exactMatch(request)]).response,
            request |-> requestToLog(request), mock |-> NoLog]
      ELSE IF partialMatch(request) # 0
        THEN [kind |-> "NoExactMatchButPartial", response |-> 0,
              request |-> requestToLog(request),
              mock |-> mockToLog(store[partialMatch(request)])]
        ELSE [kind |-> "NoMatch", response |-> 0,
              request |-> requestToLog(request), mock |-> NoLog]

\* mock.call(request): the request is appended to the calls of the entry
call(mock, request) == [mock EXCEPT !.calls = Append(@, request)]

\* mutant: without an exact match the partial match is called before the error
storeAfterLookupPartial(request) ==
    IF exactMatch(request) # 0
      THEN [store EXCEPT ![exactMatch(request)] = call(@, request)]
      ELSE IF partialMatch(request) # 0
        THEN [store EXCEPT ![partialMatch(request)] = call(@, request)]
        ELSE store

\* mutant: every exact match is called, not only the one taken by pop()
storeAfterLookupAll(request) ==
    [i \in 1..Len(store) |->
        IF isExactMatch(store[i], request) THEN call(store[i], request) ELSE store[i]]

\* the store after lookupResponse(request): the selected entry, if any, is called
storeAfterLookup(request) ==
    IF exactMatch(request) # 0
      THEN [store EXCEPT ![exactMatch(request)] = call(@, request)]
      ELSE store

selectedAfterLookup(request) ==
    IF exactMatch(request) # 0
      THEN selected \cup {store[exactMatch(request)].id}
      ELSE selected

\* the calls of an entry are kept within MaxCalls
WithinCalls(request) ==
    exactMatch(request) # 0 => Len(store[exactMatch(request)].calls) < MaxCalls

\* mutant: the entries with exactly one call are counted
unusedMocksOneCall ==
    Cardinality({i \in 1..Len(store) : Len(store[i].calls) = 1})

unusedMocks ==
    Cardinality({i \in 1..Len(store) : Len(store[i].calls) = 0})

(***************************************************************************)
(* Operations.                                                             *)
(***************************************************************************)
Init ==
    /\ store = <<>>
    /\ ids = 1
    /\ originalGateway = "null"
    /\ gateway \in DefaultGateways
    /\ asyncCalls = EmptyBag
    /\ result = [op |-> "init", outcome |-> NoOutcome, call |-> NoCall]
    /\ selected = {}
    /\ slotAtInstall = "none"
    /\ matcher = NoMatcher

mockClient(client) ==
    /\ ids <= MaxIds
    /\ store' = Append(store, MockResource(ids, client))
    /\ ids' = ids + 1
    /\ result' = [op |-> "mockClient", outcome |-> NoOutcome, call |-> NoCall]
    /\ UNCHANGED <<originalGateway, gateway, asyncCalls, selected, slotAtInstall, matcher>>

\* mutant: the id is taken from the length of the store, which clear() resets
mockRequestLength(props) ==
    /\ ids <= MaxIds
    /\ store' = Append(store, MockRequest(Len(store) + 1, props))
    /\ ids' = ids + 1
    /\ result' = [op |-> "mockRequest", outcome |-> NoOutcome, call |-> NoCall]
    /\ UNCHANGED <<originalGateway, gateway, asyncCalls, selected, slotAtInstall, matcher>>

mockRequest(props) ==
    /\ ids <= MaxIds
    /\ store' = Append(store, MockRequest(ids, props))
    /\ ids' = ids + 1
    /\ result' = [op |-> "mockRequest", outcome |-> NoOutcome, call |-> NoCall]
    /\ UNCHANGED <<originalGateway, gateway, asyncCalls, selected, slotAtInstall, matcher>>

\* mutant: the gateway found in the slot is not saved
installNoSave ==
    /\ gateway' = MockGateway
    /\ slotAtInstall' = gateway
    /\ result' = [op |-> "install", outcome |-> NoOutcome, call |-> NoCall]
    /\ UNCHANGED <<store, ids, originalGateway, asyncCalls, selected, matcher>>

install ==
    /\ originalGateway' = gateway
    /\ gateway' = MockGateway
    /\ slotAtInstall' = gateway
    /\ result' = [op |-> "install", outcome |-> NoOutcome, call |-> NoCall]
    /\ UNCHANGED <<store, ids, asyncCalls, selected, matcher>>

\* mutant: the saved gateway is tested against undefined only, so that the null of
\* "nothing installed" is put into the slot
uninstallNotUndefined ==
    /\ store' = <<>>
    /\ selected' = {}
    /\ IF originalGateway # "undefined"
         THEN gateway' = originalGateway /\ originalGateway' = "null"
         ELSE UNCHANGED <<gateway, originalGateway>>
    /\ result' = [op |-> "uninstall", outcome |-> NoOutcome, call |-> NoCall]
    /\ UNCHANGED <<ids, asyncCalls, slotAtInstall, matcher>>

\* clear() first, then the saved gateway, if there is one, goes back into the slot
uninstall ==
    /\ store' = <<>>
    /\ selected' = {}
    /\ IF Truthy(originalGateway)
         THEN gateway' = originalGateway /\ originalGateway' = "null"
         ELSE UNCHANGED <<gateway, originalGateway>>
    /\ result' = [op |-> "uninstall", outcome |-> NoOutcome, call |-> NoCall]
    /\ UNCHANGED <<ids, asyncCalls, slotAtInstall, matcher>>

\* mutant: only the first entry is dropped
clearShift ==
    /\ store' = IF store = <<>> THEN store ELSE Tail(store)
    /\ selected' = {}
    /\ result' = [op |-> "clear", outcome |-> NoOutcome, call |-> NoCall]
    /\ UNCHANGED <<ids, originalGateway, gateway, asyncCalls, slotAtInstall, matcher>>

clear ==
    /\ store' = <<>>
    /\ selected' = {}
    /\ result' = [op |-> "clear", outcome |-> NoOutcome, call |-> NoCall]
    /\ UNCHANGED <<ids, originalGateway, gateway, asyncCalls, slotAtInstall, matcher>>

lookupResponse(request) ==
    /\ WithinCalls(request)
    /\ result' = [op |-> "lookupResponse", outcome |-> lookupOutcome(request),
                  call |-> NoCall]
    /\ store' = storeAfterLookup(request)
    /\ selected' = selectedAfterLookup(request)
    /\ UNCHANGED <<ids, originalGateway, gateway, asyncCalls, slotAtInstall, matcher>>

(***************************************************************************)
(* lookupResponseAsync.  A call in flight is a record: its request, the    *)
(* entries (by id) whose replay it launched, those whose replay has not    *)
(* settled yet, and whether Promise.all has already rejected.  asyncCalls  *)
(* is the bag of the calls in flight.                                      *)
(***************************************************************************)
\* mutant: every client-bound entry is taken, whatever its flag
mocksOfClients ==
    {i \in 1..Len(store) : store[i].kind = "MockResource"}

\* store.filter((mock) => mock.pendingMiddlewareExecution): positions in the store
mocksPendingMiddlewareExecution ==
    {i \in 1..Len(store) : store[i].pendingMiddlewareExecution}

\* the replay has run to its end: the entry is matched against the final request
executeMiddlewareStack(mock) == [mock EXCEPT !.pendingMiddlewareExecution = FALSE]

InFlight == BagToSet(asyncCalls)

\* mutant: the lookup is chained without waiting for the replays
promiseAllNoWait(asyncCall) ==
    IF asyncCall.state = "rejected" THEN "rejected" ELSE "fulfilled"

\* the promise of Promise.all over the replays of a call: it rejects with the first
\* rejection and fulfils when every replay has fulfilled
promiseAll(asyncCall) ==
    IF asyncCall.state = "rejected" THEN "rejected"
    ELSE IF asyncCall.running = {} THEN "fulfilled"
    ELSE "pending"

\* asyncCall goes on as next; a call whose outcome is delivered and whose replays
\* are all settled is dropped
settleCall(asyncCall, next) ==
    IF next.state = "rejected" /\ next.running = {}
      THEN asyncCalls (-) SetToBag({asyncCall})
      ELSE (asyncCalls (-) SetToBag({asyncCall})) (+) SetToBag({next})

\* mutant: only the first pending entry is replayed
lookupResponseAsyncFirstOnly(request) ==
    /\ BagCardinality(asyncCalls) < MaxAsync
    /\ asyncCalls' = asyncCalls (+) SetToBag({
          [request |-> request,
           launched |-> {store[i].id : i \in {j \in mocksPendingMiddlewareExecution :
                            \A k \in mocksPendingMiddlewareExecution : j <= k}},
           running |-> {store[i].id : i \in {j \in mocksPendingMiddlewareExecution :
                            \A k \in mocksPendingMiddlewareExecution : j <= k}},
           state |-> "waiting"]})
    /\ result' = [op |-> "lookupResponseAsync", outcome |-> NoOutcome, call |-> NoCall]
    /\ UNCHANGED <<store, ids, originalGateway, gateway, selected, slotAtInstall, matcher>>

lookupResponseAsync(request) ==
    /\ BagCardinality(asyncCalls) < MaxAsync
    /\ asyncCalls' = asyncCalls (+) SetToBag({
          [request |-> request,
           launched |-> {store[i].id : i \in mocksPendingMiddlewareExecution},
           running |-> {store[i].id : i \in mocksPendingMiddlewareExecution},
           state |-> "waiting"]})
    /\ result' = [op |-> "lookupResponseAsync", outcome |-> NoOutcome, call |-> NoCall]
    /\ UNCHANGED <<store, ids, originalGateway, gateway, selected, slotAtInstall, matcher>>

\* the replay launched by asyncCall for entry id fulfils
replayFulfilled(asyncCall, id) ==
    /\ id \in asyncCall.running
    /\ store' = [i \in 1..Len(store) |->
                   IF store[i].id = id THEN executeMiddlewareStack(store[i]) ELSE store[i]]
    /\ asyncCalls' = settleCall(asyncCall, [asyncCall EXCEPT !.running = @ \ {id}])
    /\ result' = [op |-> "replay", outcome |-> NoOutcome, call |-> NoCall]
    /\ UNCHANGED <<ids, originalGateway, gateway, selected, slotAtInstall, matcher>>

\* mutant: the error is handed to the caller but the call goes on waiting, so that
\* the lookup is still chained once the other replays have fulfilled
replayRejectedStillWaiting(asyncCall, id) ==
    /\ id \in asyncCall.running
    /\ asyncCalls' = settleCall(asyncCall, [asyncCall EXCEPT !.running = @ \ {id}])
    /\ result' = [op |-> "settle", outcome |-> MiddlewareError(asyncCall.request),
                  call |-> [asyncCall EXCEPT !.running = @ \ {id}]]
    /\ UNCHANGED <<store, ids, originalGateway, gateway, selected, slotAtInstall, matcher>>

\* the replay launched by asyncCall for entry id rejects: Promise.all rejects with
\* the first rejection, without waiting for the other replays
replayRejected(asyncCall, id) ==
    /\ id \in asyncCall.running
    /\ asyncCalls' = settleCall(asyncCall, [asyncCall EXCEPT !.running = @ \ {id},
                                                             !.state = "rejected"])
    /\ result' = IF asyncCall.state = "waiting"
                   THEN [op |-> "settle", outcome |-> MiddlewareError(asyncCall.request),
                         call |-> [asyncCall EXCEPT !.running = @ \ {id},
                                                    !.state = "rejected"]]
                   ELSE [op |-> "replay", outcome |-> NoOutcome, call |-> NoCall]
    /\ UNCHANGED <<store, ids, originalGateway, gateway, selected, slotAtInstall, matcher>>

\* mutant: the lookup is chained on the call, not on the settling of its replays
thenLookupResponseEager(asyncCall) ==
    /\ promiseAll(asyncCall) # "rejected"
    /\ WithinCalls(asyncCall.request)
    /\ result' = [op |-> "settle", outcome |-> lookupOutcome(asyncCall.request),
                  call |-> asyncCall]
    /\ store' = storeAfterLookup(asyncCall.request)
    /\ selected' = selectedAfterLookup(asyncCall.request)
    /\ asyncCalls' = asyncCalls (-) SetToBag({asyncCall})
    /\ UNCHANGED <<ids, originalGateway, gateway, slotAtInstall, matcher>>

\* .then(() => lookupResponse(request)) of asyncCall
thenLookupResponse(asyncCall) ==
    /\ promiseAll(asyncCall) = "fulfilled"
    /\ WithinCalls(asyncCall.request)
    /\ result' = [op |-> "settle", outcome |-> lookupOutcome(asyncCall.request),
                  call |-> asyncCall]
    /\ store' = storeAfterLookup(asyncCall.request)
    /\ selected' = selectedAfterLookup(asyncCall.request)
    /\ asyncCalls' = asyncCalls (-) SetToBag({asyncCall})
    /\ UNCHANGED <<ids, originalGateway, gateway, slotAtInstall, matcher>>

(***************************************************************************)
(* Spec: the synchronous operations of the library, the gateway            *)
(* substitution included.                                                  *)
(***************************************************************************)
Next ==
    \/ \E client \in Clients : mockClient(client)
    \/ \E props \in Props : mockRequest(props)
    \/ install
    \/ uninstall
    \/ clear
    \/ \E request \in Requests : lookupResponse(request)

Spec == Init /\ [][Next]_vars

\* SpecRealGateway: the same operations in an environment that has a gateway,
\* XMLHttpRequest in a browser or process in node
RealGateways == {"XHR", "HTTP"}
InitRealGateway == Init /\ gateway \in RealGateways
SpecRealGateway == InitRealGateway /\ [][Next]_vars

(***************************************************************************)
(* SpecAsync: registration, clear and both lookups, with the replays of    *)
(* the middleware stack interleaved in every order.  The gateway slot      *)
(* plays no part in a lookup and uninstall acts on the store as clear      *)
(* does, so install and uninstall are left to Spec.                        *)
(***************************************************************************)
AsyncProps == {PropsA}
AsyncRequests == {ReqUsers, ReqUsersAuth}

InitAsync == Init /\ gateway = "HTTP"

NextAsync ==
    \/ \E client \in Clients : mockClient(client)
    \/ \E props \in AsyncProps : mockRequest(props)
    \/ clear
    \/ \E request \in AsyncRequests : lookupResponse(request)
    \/ \E request \in AsyncRequests : lookupResponseAsync(request)
    \/ \E asyncCall \in InFlight : \E id \in asyncCall.running :
          replayFulfilled(asyncCall, id)
    \/ \E asyncCall \in InFlight : \E id \in asyncCall.running :
          replayRejected(asyncCall, id)
    \/ \E asyncCall \in InFlight : thenLookupResponse(asyncCall)

SpecAsync == InitAsync /\ [][NextAsync]_vars

(***************************************************************************)
(* SpecReplay: lookupResponseAsync on a store that no registration and no  *)
(* clear touches while the replays run.  The store is any store the        *)
(* registrations build; the replays of a call start and settle in every    *)
(* order.                                                                  *)
(***************************************************************************)
Registered(id) ==
    {MockRequest(id, props) : props \in AsyncProps}
        \cup {MockResource(id, client) : client \in Clients}

Stores == UNION {{s \in [1..n -> UNION {Registered(id) : id \in 1..n}] :
                    \A i \in 1..n : s[i].id = i} : n \in 0..MaxIds}

InitReplay ==
    /\ store \in Stores
    /\ ids = Len(store) + 1
    /\ originalGateway = "null"
    /\ gateway = "HTTP"
    /\ asyncCalls = EmptyBag
    /\ result = [op |-> "init", outcome |-> NoOutcome, call |-> NoCall]
    /\ selected = {}
    /\ slotAtInstall = "none"
    /\ matcher = NoMatcher

NextReplay ==
    \/ \E request \in AsyncRequests : lookupResponseAsync(request)
    \/ \E asyncCall \in InFlight : \E id \in asyncCall.running :
          replayFulfilled(asyncCall, id)
    \/ \E asyncCall \in InFlight : \E id \in asyncCall.running :
          replayRejected(asyncCall, id)
    \/ \E asyncCall \in InFlight : thenLookupResponse(asyncCall)

SpecReplay == InitReplay /\ [][NextReplay]_vars

(***************************************************************************)
(* The matcher combinators m.stringContaining and m.stringMatching.  A     *)
(* test builds a matcher from an argument of any type and applies the      *)
(* predicate it got to candidate strings.  A regular expression is its     *)
(* source, here a literal text, its global and sticky flags and its        *)
(* lastIndex.                                                              *)
(***************************************************************************)
Alphabet == {"a", "b"}
Strings == UNION {[1..n -> Alphabet] : n \in 0..MaxLen}

\* the arguments of the combinators: a value with its type; v is the text of a string
\* and the source of a regular expression, whose flags and lastIndex follow
Value(type, v, global, sticky) ==
    [type |-> type, v |-> v, global |-> global, sticky |-> sticky, lastIndex |-> 0]

String(v) == Value("string", v, FALSE, FALSE)
RegExp(source, global, sticky) == Value("regexp", source, global, sticky)

RegExps == {RegExp(<<"a">>, FALSE, FALSE), RegExp(<<"a">>, TRUE, FALSE),
            RegExp(<<"a">>, FALSE, TRUE), RegExp(<<"a", "b">>, FALSE, FALSE),
            RegExp(<<"a", "b">>, TRUE, FALSE), RegExp(<<"a", "b">>, FALSE, TRUE)}

\* what a test may hand to a combinator
Args == {String(v) : v \in Strings} \cup RegExps
           \cup {Value("number", <<>>, FALSE, FALSE), Value("undefined", <<>>, FALSE, FALSE)}

\* the predicate (string) => regexp.test(string)
stringMatching(regexp) == [t |-> "stringMatching", v |-> regexp]

\* RegExp.prototype.test: the result and the regular expression after the call.  With
\* the global or the sticky flag the search starts at lastIndex, which a match moves
\* past the matched text and a failure resets to 0
test(regexp, string) ==
    LET start == IF regexp.global \/ regexp.sticky THEN regexp.lastIndex ELSE 0
        found == IF start > Len(string) THEN {}
                 ELSE IF regexp.sticky
                   THEN Occurrences(string, regexp.v, start) \cap {start}
                   ELSE Occurrences(string, regexp.v, start)
    IN  [result |-> found # {},
         regexp |-> IF regexp.global \/ regexp.sticky
                      THEN [regexp EXCEPT !.lastIndex =
                              IF found = {} THEN 0 ELSE Min(found) + Len(regexp.v)]
                      ELSE regexp]

\* mutant: the type of the argument is not tested
mStringContainingUnchecked(sample) ==
    /\ matcher' = [op |-> "stringContaining", argType |-> sample.type, error |-> "none",
                   predicate |-> stringContaining(sample.v), applied |-> <<>>]
    /\ UNCHANGED <<store, ids, originalGateway, gateway, asyncCalls, result, selected,
                   slotAtInstall>>

\* m.stringContaining(sample)
mStringContaining(sample) ==
    /\ matcher' = IF sample.type # "string"
                    THEN [op |-> "stringContaining", argType |-> sample.type,
                          error |-> "ConstructionError", predicate |-> NoPredicate,
                          applied |-> <<>>]
                    ELSE [op |-> "stringContaining", argType |-> sample.type,
                          error |-> "none", predicate |-> stringContaining(sample.v),
                          applied |-> <<>>]
    /\ UNCHANGED <<store, ids, originalGateway, gateway, asyncCalls, result, selected,
                   slotAtInstall>>

\* m.stringMatching(regexp)
mStringMatching(regexp) ==
    /\ matcher' = IF regexp.type # "regexp"
                    THEN [op |-> "stringMatching", argType |-> regexp.type,
                          error |-> "ConstructionError", predicate |-> NoPredicate,
                          applied |-> <<>>]
                    ELSE [op |-> "stringMatching", argType |-> regexp.type,
                          error |-> "none", predicate |-> stringMatching(regexp),
                          applied |-> <<>>]
    /\ UNCHANGED <<store, ids, originalGateway, gateway, asyncCalls, result, selected,
                   slotAtInstall>>

\* the predicate a combinator returned, applied to string; hasIncludes:
\* typeof string.includes === 'function'
applyPredicate(string, hasIncludes) ==
    /\ matcher.predicate.t # "none"
    /\ Len(matcher.applied) < MaxApply
    /\ matcher' =
         [matcher EXCEPT
            !.op = "apply",
            !.predicate =
                IF @.t = "stringMatching" THEN stringMatching(test(@.v, string).regexp)
                ELSE @,
            !.applied = Append(@,
                [string |-> string, hasIncludes |-> hasIncludes,
                 out |-> IF matcher.predicate.t = "stringMatching"
                           THEN test(matcher.predicate.v, string).result
                           ELSE stringIncludes(string, matcher.predicate.v, 0,
                                               hasIncludes)])]
    /\ UNCHANGED <<store, ids, originalGateway, gateway, asyncCalls, result, selected,
                   slotAtInstall>>

InitMatchers == Init /\ gateway = "HTTP"

NextMatchers ==
    \/ \E sample \in Args : mStringContaining(sample)
    \/ \E regexp \in Args : mStringMatching(regexp)
    \/ \E string \in Strings : \E hasIncludes \in BOOLEAN :
          applyPredicate(string, hasIncludes)

SpecMatchers == InitMatchers /\ [][NextMatchers]_vars

(***************************************************************************)
(* Properties.                                                             *)
(***************************************************************************)
\* the latest step was a lookup that handed its outcome to the caller
LookupDone ==
    /\ result.op \in {"lookupResponse", "settle"}
    /\ result.outcome.kind \in {"response", "NoExactMatchButPartial", "NoMatch"}

\* the request of the latest lookup
LookedUp == CHOOSE request \in Requests : requestToLog(request) = result.outcome.request

\* positions of the entries that match the request exactly, or in method and url
ExactMatches(request) == {i \in 1..Len(store) : isExactMatch(store[i], request)}
PartialMatches(request) == {i \in 1..Len(store) : isPartialMatch(store[i], request)}

\* the position in S of the entry registered last
Latest(S) == CHOOSE i \in S : \A j \in S : store[j].id <= store[i].id

\* C1: when one or more entries match the request exactly, the lookup returns the
\* response of the exact match registered last, never that of an earlier one.
C1_LastExactMatchWins ==
    (LookupDone /\ ExactMatches(LookedUp) # {}) =>
        /\ result.outcome.kind = "response"
        /\ result.outcome.response =
              toMockRequest(store[Latest(ExactMatches(LookedUp))]).response
        /\ store[Latest(ExactMatches(LookedUp))].id \in selected

\* C1 witness: two entries match the request exactly, with responses 1 and 2, and
\* the lookup has returned the response of the later one.
C1_Witness ==
    /\ result.op = "lookupResponse"
    /\ result.outcome.kind = "response"
    /\ LookedUp = ReqUsers
    /\ Len(store) = 2
    /\ store[1].sync = PropsA
    /\ store[2].sync = PropsB
    /\ result.outcome.response = 2

\* C2 as stated: when an entry matches the request in method and url but not in
\* body or headers, the lookup fails with NoExactMatchButPartial.
C2_Original ==
    (LookupDone /\ \E i \in PartialMatches(LookedUp) : i \notin ExactMatches(LookedUp)) =>
        result.outcome.kind = "NoExactMatchButPartial"

\* C2 as amended: when an entry matches the request in method and url and no entry
\* of the store matches it exactly, the lookup fails with NoExactMatchButPartial and
\* returns no response.
C2_PartialOnlyFails ==
    (LookupDone /\ PartialMatches(LookedUp) # {} /\ ExactMatches(LookedUp) = {}) =>
        /\ result.outcome.kind = "NoExactMatchButPartial"
        /\ result.outcome.response = 0

\* C2 witness: entry C is in the store, the request carries no Authorization header
\* and the lookup has failed with the partial match.
C2_Witness ==
    /\ result.op = "lookupResponse"
    /\ result.outcome.kind = "NoExactMatchButPartial"
    /\ LookedUp = ReqUsers
    /\ \E i \in 1..Len(store) : store[i].sync = PropsC

\* C3: unusedMocks() is the number of entries of the store that no lookup has
\* selected since the last clear: with N entries of which M were selected, N - M.
C3_UnusedCount ==
    /\ unusedMocks = Cardinality({i \in 1..Len(store) : store[i].id \notin selected})
    /\ unusedMocks = Len(store) - Cardinality(selected)

\* C3 witness: two entries are registered, one of them was selected once.
C3_Witness ==
    /\ Len(store) = 2
    /\ Cardinality(selected) = 1
    /\ \E i \in 1..Len(store) : Len(store[i].calls) = 1
    /\ unusedMocks = 1

\* C4: right after clear() unusedMocks() is 0, the store stays empty until the next
\* registration, and every lookup on it fails with NoMatch.
C4_ClearThenNoMatch ==
    [][/\ result'.op = "clear" => (store' = <<>> /\ unusedMocks' = 0)
       /\ (store = <<>> /\ result'.op \notin {"mockClient", "mockRequest"}) => store' = <<>>
       /\ (store = <<>> /\ LookupDone') => result'.outcome.kind = "NoMatch"]_vars

\* C4 witness: entries were registered, the store was cleared and a lookup on it has
\* failed with NoMatch.
C4_Witness ==
    /\ ids > 1
    /\ store = <<>>
    /\ result.op = "lookupResponse"
    /\ result.outcome.kind = "NoMatch"
    /\ result.outcome.mock = NoLog

\* C5 as stated: a call of lookupResponseAsync delivers its outcome only after every
\* replay it launched has settled.
C5_Original ==
    result.op = "settle" => result.call.running = {}

\* C5 as amended: a call of lookupResponseAsync performs its matching step, and
\* delivers the outcome of that step, only after every replay it launched has
\* fulfilled; the error of a failed replay is delivered at once.
C5_MatchAfterReplays ==
    /\ (result.op = "settle" /\ result.outcome.kind # "MiddlewareError") =>
          (result.call.running = {} /\ result.call.state = "waiting")
    /\ (result.op = "settle" /\ result.outcome.kind = "MiddlewareError") =>
          (result.call.launched # {} /\ result.call.state = "rejected")

\* C5 witness: a call that launched two replays has delivered a response, matched
\* against the final request of a replayed entry.
C5_Witness ==
    /\ result.op = "settle"
    /\ result.outcome.kind = "response"
    /\ Cardinality(result.call.launched) = 2
    /\ result.call.running = {}
    /\ result.outcome.response = ClientE.final.response
    /\ LookedUp = ReqUsersAuth

\* C6: a call of lookupResponseAsync launches no replay for an entry whose
\* pendingMiddlewareExecution is cleared, and a cleared flag is never set again.
C6_NoReplayOnceCleared ==
    [][/\ \A i \in 1..Len(store) : \A j \in 1..Len(store') :
             (store[i].id = store'[j].id /\ ~store[i].pendingMiddlewareExecution)
                 => ~store'[j].pendingMiddlewareExecution
       /\ result'.op = "lookupResponseAsync" =>
             \E asyncCall \in BagToSet(asyncCalls') :
                 /\ asyncCalls' = asyncCalls (+) SetToBag({asyncCall})
                 /\ asyncCall.running = asyncCall.launched
                 /\ \A i \in 1..Len(store) :
                       ~store[i].pendingMiddlewareExecution =>
                           store[i].id \notin asyncCall.launched]_vars

\* C6 witness: the first call has completed and cleared the flag of a client-bound
\* entry; the second call has just been made and has launched no replay.
C6_Witness ==
    /\ result.op = "lookupResponseAsync"
    /\ BagCardinality(asyncCalls) = 1
    /\ \A asyncCall \in InFlight : asyncCall.launched = {}
    /\ \E i \in 1..Len(store) :
          store[i].kind = "MockResource" /\ ~store[i].pendingMiddlewareExecution

\* C7 as stated: after install() and then uninstall(), with no other install in
\* between, the gateway slot holds what it held right before install() and the
\* saved reference is empty.
C7_Original ==
    (result.op = "uninstall" /\ slotAtInstall # "none") =>
        (gateway = slotAtInstall /\ ~Truthy(originalGateway))

\* C8 as stated: uninstall() with no saved gateway leaves the whole state as it was.
C8_Original ==
    [][(result'.op = "uninstall" /\ ~Truthy(originalGateway)) =>
          UNCHANGED <<store, ids, gateway, originalGateway, asyncCalls>>]_vars

\* C8 as amended: uninstall() with no saved gateway leaves the gateway slot, the
\* saved reference, the id counter and the calls in flight as they were and empties
\* the store; an uninstall() right after an uninstall() changes nothing.
C8_UninstallNothingInstalled ==
    [][/\ (result'.op = "uninstall" /\ ~Truthy(originalGateway)) =>
             /\ UNCHANGED <<ids, gateway, originalGateway, asyncCalls>>
             /\ store' = <<>>
       /\ (result'.op = "uninstall" /\ result.op = "uninstall") =>
             UNCHANGED <<store, ids, gateway, originalGateway, asyncCalls>>]_vars

\* C8 witness: install was never called, an entry was registered, and uninstall()
\* has just run.
C8_Witness ==
    /\ result.op = "uninstall"
    /\ slotAtInstall = "none"
    /\ ids > 1
    /\ gateway \in DefaultGateways
    /\ originalGateway = "null"

\* C9: the id counter never goes down, whatever the operation; a registration takes
\* the counter as its id, above every id of the store, and moves the counter past
\* it; the store is ordered by strictly increasing id, below the counter.
C9_IdsStrictlyIncreasing ==
    [][/\ ids' >= ids
       /\ \A i \in 1..Len(store') : store'[i].id < ids'
       /\ \A i \in 1..Len(store') : \A j \in 1..Len(store') :
             i < j => store'[i].id < store'[j].id
       /\ result'.op \in {"mockClient", "mockRequest"} =>
             /\ Len(store') = Len(store) + 1
             /\ store'[Len(store')].id = ids
             /\ ids' = ids + 1
             /\ \A i \in 1..Len(store) : store[i].id < store'[Len(store')].id]_vars

\* C9 witness: after a clear, the entry registered next has a fresh id.
C9_Witness ==
    /\ result.op \in {"mockClient", "mockRequest"}
    /\ Len(store) = 1
    /\ store[1].id = 2
    /\ ids = 3

\* C10: the outcome of a lookup is a response iff some entry matches exactly;
\* otherwise NoExactMatchButPartial, naming the last entry that matches in method
\* and url, iff there is one; otherwise NoMatch, naming the request only.
C10_ThreeOutcomes ==
    LookupDone =>
        /\ result.outcome.kind = "response" <=> ExactMatches(LookedUp) # {}
        /\ result.outcome.kind = "NoExactMatchButPartial" <=>
              (ExactMatches(LookedUp) = {} /\ PartialMatches(LookedUp) # {})
        /\ result.outcome.kind = "NoMatch" <=>
              (ExactMatches(LookedUp) = {} /\ PartialMatches(LookedUp) = {})
        /\ result.outcome.kind = "NoExactMatchButPartial" =>
              result.outcome.mock = mockToLog(store[Latest(PartialMatches(LookedUp))])
        /\ result.outcome.kind = "NoMatch" => result.outcome.mock = NoLog

\* C10 witness: the store is not empty and the lookup has failed with NoMatch.
C10_Witness ==
    /\ result.op = "lookupResponse"
    /\ result.outcome.kind = "NoMatch"
    /\ store # <<>>
    /\ LookedUp = ReqGetPosts

\* every entry of the store after its replay
Replayed == [i \in 1..Len(store) |-> executeMiddlewareStack(store[i])]

ReferenceScan(candidate, sample) ==
    \E i \in 0..(Len(candidate) - Len(sample)) :
        \A k \in 1..Len(sample) : candidate[i + k] = sample[k]

\* C12: applied to any candidate, with or without the native includes, the predicate
\* of m.stringContaining(sample) returns what the reference scan returns: true for
\* the empty sample, false for a sample longer than the candidate.
C12_StringContainingIsScan ==
    matcher.predicate.t = "stringContaining" =>
        \A n \in 1..Len(matcher.applied) :
            /\ matcher.applied[n].out =
                  ReferenceScan(matcher.applied[n].string, matcher.predicate.v)
            /\ Len(matcher.predicate.v) = 0 => matcher.applied[n].out
            /\ Len(matcher.predicate.v) > Len(matcher.applied[n].string) =>
                  ~matcher.applied[n].out

\* C12 witness: the predicate of stringContaining("b") was applied to "ab" with the
\* native includes and to "b" without it, and has returned true both times.
C12_Witness ==
    /\ matcher.predicate = stringContaining(<<"b">>)
    /\ Len(matcher.applied) = 2
    /\ matcher.applied[1] = [string |-> <<"a", "b">>, hasIncludes |-> TRUE, out |-> TRUE]
    /\ matcher.applied[2] = [string |-> <<"b">>, hasIncludes |-> FALSE, out |-> TRUE]

\* C13: m.stringMatching of a value that is no regular expression and
\* m.stringContaining of a value that is no string fail with the construction error
\* and return no predicate; of a valid argument they return a predicate and raise
\* nothing; applying a predicate raises no construction error.
C13_ConstructionErrorAtBuild ==
    /\ matcher.op = "stringMatching" =>
          /\ matcher.argType # "regexp" =>
                (matcher.error = "ConstructionError" /\ matcher.predicate = NoPredicate)
          /\ matcher.argType = "regexp" =>
                (matcher.error = "none" /\ matcher.predicate.t = "stringMatching")
    /\ matcher.op = "stringContaining" =>
          /\ matcher.argType # "string" =>
                (matcher.error = "ConstructionError" /\ matcher.predicate = NoPredicate)
          /\ matcher.argType = "string" =>
                (matcher.error = "none" /\ matcher.predicate.t = "stringContaining")
    /\ matcher.op = "apply" =>
          (matcher.error = "none" /\ matcher.predicate # NoPredicate)

\* C13 witness: m.stringContaining was called with a regular expression and has
\* failed.
C13_Witness ==
    /\ matcher.op = "stringContaining"
    /\ matcher.argType = "regexp"
    /\ matcher.error = "ConstructionError"
    /\ matcher.predicate = NoPredicate

\* C20 as stated: the predicate of m.stringMatching(pattern) is pure: applied again
\* to a candidate it was applied to before, it returns what it returned before,
\* whatever the flags of the pattern.
C20_Original ==
    matcher.predicate.t = "stringMatching" =>
        \A i \in 1..Len(matcher.applied) : \A j \in 1..Len(matcher.applied) :
            matcher.applied[i].string = matcher.applied[j].string =>
                matcher.applied[i].out = matcher.applied[j].out

\* the calls in flight that have run the hooks of entry id: each call invokes
\* executeMiddlewareStack() on every entry it finds pending
LaunchedBy(id) == {asyncCall \in InFlight : id \in asyncCall.launched}

\* C14 as stated: the middleware hooks of an entry run at most once, also when two
\* calls of lookupResponseAsync are made before the replays of the first have
\* settled: no two calls in flight have run them for the same entry.
C14_Original ==
    \A id \in 1..(ids - 1) :
        /\ Cardinality(LaunchedBy(id)) <= 1
        /\ \A asyncCall \in LaunchedBy(id) : CopiesIn(asyncCall, asyncCalls) <= 1

\* C15: a lookupResponse that returns a response appends the request once to the
\* calls of one entry, the selected one, and leaves the other entries, the length
\* and order of the store, the id counter, the gateway slot and the saved gateway
\* as they were; no operation makes the calls of an entry of the store shorter.
C15_OnlyCallsGrow ==
    [][/\ (result'.op = "lookupResponse" /\ result'.outcome.kind = "response") =>
             /\ Len(store') = Len(store)
             /\ \E i \in 1..Len(store) :
                   /\ store'[i] = [store[i] EXCEPT !.calls = Append(@, LookedUp')]
                   /\ store[i].id \in selected'
                   /\ \A j \in (1..Len(store)) \ {i} : store'[j] = store[j]
             /\ UNCHANGED <<ids, gateway, originalGateway, asyncCalls>>
       /\ \A i \in 1..Len(store) : \A j \in 1..Len(store') :
             store'[j].id = store[i].id =>
                 /\ Len(store'[j].calls) >= Len(store[i].calls)
                 /\ SubSeq(store'[j].calls, 1, Len(store[i].calls)) = store[i].calls]_vars

\* C15 witness: of two entries that both match the request exactly, the lookup has
\* called the one registered last and has left the other without a call.
C15_Witness ==
    /\ result.op = "lookupResponse"
    /\ result.outcome.kind = "response"
    /\ Len(store) = 2
    /\ isExactMatch(store[1], LookedUp)
    /\ store[1].calls = <<>>
    /\ store[2].calls = <<LookedUp>>
    /\ ids = 3

\* C16 as stated: when a call of lookupResponseAsync performs its matching step,
\* no entry of the store has pendingMiddlewareExecution set, whatever registrations,
\* clears and lookups ran while the call waited for its replays.
C16_Original ==
    (result.op = "settle" /\ result.outcome.kind # "MiddlewareError") =>
        \A i \in 1..Len(store) : ~store[i].pendingMiddlewareExecution

\* C16 as amended: when a call of lookupResponseAsync performs its matching step,
\* every entry of the store whose replay the call launched, that is every entry that
\* was pending when the call was made and is still in the store, has
\* pendingMiddlewareExecution cleared.
C16_LaunchedAreReplayed ==
    (result.op = "settle" /\ result.outcome.kind # "MiddlewareError") =>
        \A i \in 1..Len(store) :
            store[i].id \in result.call.launched => ~store[i].pendingMiddlewareExecution

\* C16 witness: a call has matched after its replay; the entry it replayed is
\* cleared, and an entry registered while the call waited is still pending.
C16_Witness ==
    /\ result.op = "settle"
    /\ result.outcome.kind # "MiddlewareError"
    /\ Len(store) = 2
    /\ result.call.launched = {store[1].id}
    /\ ~store[1].pendingMiddlewareExecution
    /\ store[2].pendingMiddlewareExecution

\* C17 as stated: with a real gateway in the slot at the start, whenever the latest
\* call is uninstall() the slot holds the real gateway again, however install() and
\* uninstall() were called before, and the saved gateway is never the mock gateway.
C17_Original ==
    /\ result.op = "uninstall" => gateway \in RealGateways
    /\ originalGateway # MockGateway

\* C17 as amended: with a real gateway in the slot at the start and as long as no
\* install() has found the mock gateway in the slot, whenever the latest call is
\* uninstall() the slot holds the real gateway it held at the start and the saved
\* gateway is empty; the saved gateway is the mock gateway only after an install()
\* that found the mock gateway in the slot.
C17_PairedInstallRestores ==
    /\ (result.op = "uninstall" /\ slotAtInstall # MockGateway) =>
          /\ gateway \in RealGateways
          /\ slotAtInstall # "none" => gateway = slotAtInstall
          /\ originalGateway = "null"
    /\ originalGateway = MockGateway => slotAtInstall = MockGateway
    /\ result.op = "install" => (gateway = MockGateway /\ originalGateway = slotAtInstall)

\* C17 witness: install() found XHR in the slot, and uninstall() has put it back.
C17_Witness ==
    /\ result.op = "uninstall"
    /\ slotAtInstall = "XHR"
    /\ gateway = "XHR"
    /\ originalGateway = "null"

\* C18: a lookupResponse that fails, with NoMatch or with NoExactMatchButPartial,
\* changes nothing: the store and the calls of its entries, the value of
\* unusedMocks(), the id counter, the gateway slot and the saved gateway are as
\* they were before the lookup.
C18_FailedLookupChangesNothing ==
    [][(/\ result'.op = "lookupResponse"
        /\ result'.outcome.kind \in {"NoMatch", "NoExactMatchButPartial"}) =>
          /\ store' = store
          /\ unusedMocks' = unusedMocks
          /\ UNCHANGED <<ids, gateway, originalGateway, asyncCalls, selected>>]_vars

\* C18 witness: one of two entries was called once, and a lookup has then failed on
\* a partial match with the other; unusedMocks() is still 1.
C18_Witness ==
    /\ result.op = "lookupResponse"
    /\ result.outcome.kind = "NoExactMatchButPartial"
    /\ Len(store) = 2
    /\ Len(store[1].calls) = 1
    /\ store[2].calls = <<>>
    /\ isPartialMatch(store[2], LookedUp)
    /\ unusedMocks = 1

\* C19: when a replay launched by a call of lookupResponseAsync fails, the call
\* fails with the error of the replay and appends to no calls; a call that has
\* failed never performs the matching step: the call that matches is one whose
\* replays have all fulfilled, and a failed call only sees its other replays settle.
C19_FailedReplayFailsCall ==
    [][/\ (result'.op = "settle" /\ result'.outcome.kind = "MiddlewareError") =>
             /\ store' = store
             /\ selected' = selected
             /\ result'.outcome.response = 0
             /\ result'.call.state = "rejected"
             /\ \E asyncCall \in InFlight : \E id \in asyncCall.running :
                   /\ asyncCall.state = "waiting"
                   /\ result'.call = [asyncCall EXCEPT !.running = @ \ {id},
                                                       !.state = "rejected"]
                   /\ result'.outcome.request = requestToLog(asyncCall.request)
       /\ (result'.op = "settle" /\ result'.outcome.kind # "MiddlewareError") =>
             /\ result'.call \in InFlight
             /\ result'.call.state = "waiting"
             /\ result'.call.running = {}
             /\ CopiesIn(result'.call, asyncCalls') = CopiesIn(result'.call, asyncCalls) - 1
       /\ \A asyncCall \in InFlight :
             asyncCall.state = "rejected" =>
                 \/ CopiesIn(asyncCall, asyncCalls') >= CopiesIn(asyncCall, asyncCalls)
                 \/ \E id \in asyncCall.running :
                       \/ asyncCall.running = {id}
                       \/ [asyncCall EXCEPT !.running = @ \ {id}] \in InFlight']_vars

\* C19 witness: a call has launched two replays; the first of them to settle has
\* failed, the call has failed with its error while the other replay is still
\* running, and no entry has a call.
C19_Witness ==
    /\ result.op = "settle"
    /\ result.outcome.kind = "MiddlewareError"
    /\ Cardinality(result.call.launched) = 2
    /\ Cardinality(result.call.running) = 1
    /\ \A i \in 1..Len(store) : store[i].calls = <<>>
    /\ result.call \in InFlight
====
